---- MODULE Spec2Model ----
(***************************************************************************)
(* The tiered storage wrapper of src/script.js (lines 11-187): the facade  *)
(* storage.getItem/setItem/removeItem/clear over an in-memory cache, the   *)
(* three persistence bindings, and init(), which tries localStorage, then  *)
(* IndexedDB, then an Android bridge, then falls back to memory.           *)
(*                                                                         *)
(* One action is one run-to-completion piece of JavaScript: the code from  *)
(* one suspension point (an await, an IndexedDB event) to the next.        *)
(* Consumer calls may run between any two of them once the storage object  *)
(* is exposed on window (line 185).                                        *)
(*                                                                         *)
(* The application of lines 192-720 is modelled as far as its star         *)
(* accounting goes: loadState, checkNewDay, assignDailyMissions,           *)
(* completeMission, receiveStars and the day-change interval.              *)
(***************************************************************************)
EXTENDS Integers, Sequences, FiniteSets

\* ------------------------------------------------------------- bounds
\* Consumer calls (getItem/setItem/removeItem/clear) explored per session.
MaxOps == 2
\* Entries persisted in the stores before the session starts (all stores).
MaxEntries == 2
\* Candidate globals present on window at once.
MaxBridges == 2
\* Entries of document.cookie in the sessions that end in the fallback.
MaxCookies == 2
\* The application: missions in the pool (the first ones of the source's
\* list), midnights passed, completeMission/receiveStars calls.
MaxMissions == 3
MaxDays == 1
MaxAppOps == 2

\* ------------------------------------------------------ JavaScript values
Str(s) == [t |-> "string", s |-> s]
Num(s) == [t |-> "number", s |-> s]
NullV == [t |-> "null", s |-> "null"]
UndefinedV == [t |-> "undefined", s |-> "undefined"]
\* The outcome of a call that threw instead of returning.
ThrowV == [t |-> "throw", s |-> "TypeError"]

\* String(value), line 19: a number gives its decimal text, null "null".
ToString(v) == Str(v.s)

\* ------------------------------------------------------------------ keys
\* The keys of the model in IndexedDB's cursor order (code-unit order).
KeyOrder == <<"", "__mig_test__", "__proto__", "a", "hasOwnProperty", "migstar_user">>
Keys == {KeyOrder[i] : i \in 1..Len(KeyOrder)}
\* const testKey, line 39.
testKey == "__mig_test__"
\* const keysToTry, line 137.
keysToTry == {"migstar_user", "migstar_missionPool", "migstar_transactions",
              "migstar_history", "migstar_todayMissions"}
\* const candidates, line 119, in scan order.
candidates == <<"AndroidStorage", "Android", "AndroidBridge", "android">>
CandidateNames == {candidates[i] : i \in 1..Len(candidates)}

\* Values the stores hold before the session, and values the consumer passes.
StoredValues == {Str("1")}
ConsumerValues == {Num("2")}
\* The keys the consumer passes.
ConsumerKeys == {"a", "__proto__", "hasOwnProperty", "migstar_user"}

\* ------------------------------------------- the cache, a plain JS object
\* A plain object {} is modelled by the function from its own property names
\* to their values.  Object.prototype supplies the accessor __proto__ (whose
\* setter ignores a primitive) and the method hasOwnProperty.
EmptyObj == [k \in {} |-> NullV]

\* obj[k] = v, for a primitive v (lines 19, 47, 84, 141, 170).
ObjPut(obj, k, v) ==
  IF k = "__proto__" THEN obj
  ELSE [x \in (DOMAIN obj) \cup {k} |-> IF x = k THEN v ELSE obj[x]]

\* delete obj[k], line 23.
ObjDelete(obj, k) == [x \in (DOMAIN obj) \ {k} |-> obj[x]]

\* getItem(key), line 17: this._cache.hasOwnProperty(key) ? this._cache[key] : null.
\* An own property named hasOwnProperty (a string) shadows the inherited
\* method, and calling a string throws a TypeError.
GetItem(obj, key) ==
  IF "hasOwnProperty" \in DOMAIN obj THEN ThrowV
  ELSE IF key \in DOMAIN obj THEN obj[key]
  ELSE NullV

\* A native key/value store (localStorage, the IndexedDB object store, the
\* host's store behind a bridge): any string is an ordinary key there.
StorePut(st, k, v) == [x \in (DOMAIN st) \cup {k} |-> IF x = k THEN v ELSE st[x]]
StoreDelete(st, k) == [x \in (DOMAIN st) \ {k} |-> st[x]]
StoreGet(st, k) == IF k \in DOMAIN st THEN st[k] ELSE NullV

\* Put the entries of store st with keys in ks into obj, one assignment each.
RECURSIVE PutAll(_, _, _)
PutAll(obj, st, ks) ==
  IF ks = {} THEN obj
  ELSE LET k == CHOOSE x \in ks : TRUE
       IN PutAll(ObjPut(obj, k, st[k]), st, ks \ {k})

VARIABLES
  \* the environment
  lsMode,        \* localStorage: "ok", "probeThrows" or "loadThrows"
  ls,            \* localStorage's entries
  idbMode,       \* IndexedDB: "ok", "openError" or "txThrows"
  idb,           \* the entries of object store kv
  idbQueue,      \* write transactions created and not yet committed
  bridges,       \* window[name] for each candidate name
  bridgeStore,   \* the host's store behind the bridge objects
  cookie,        \* document.cookie, split at "; " and then at "="
  atStart,       \* the stores' entries when the session started
  \* the storage object and the closure of lines 11-187
  backend,       \* storage.backend
  cache,         \* storage._cache
  idbHandle,     \* storage._idb
  ready,         \* the state of the promise storage.ready
  persistSet, persistRemove, persistClear,
  pc,            \* where init() is
  result,        \* what the try* call init() awaits has settled to
  cursorPos,     \* index in KeyOrder of the cursor's current key
  \* observation
  last,          \* the consumer's latest call, what it did and returned
  expect,        \* per key, what the consumer's calls say getItem returns
  tagWrites,     \* how many times storage.backend was assigned
  tried,         \* the try* calls of init() so far and what each settled to
  calls,         \* the setItem/removeItem/clear calls made after readiness
  dispatched,    \* the binding calls those calls made, in the order made
  cacheAtReady,  \* storage._cache when storage.ready was fulfilled
  nativeFailed,  \* whether some native call of a binding has thrown
  earlyWrite,    \* whether setItem/removeItem/clear was called before readiness
  opsDone,
  \* the application, lines 192-720
  state,         \* const state of initApp, line 211
  appPc,         \* "boot" until initApp has run, then "running"
  now,           \* the current date, as a day number
  lastApp,       \* the application's latest call and what it returned
  rewardedToday, \* the ids rewarded since completedMissionsToday was last reset
  appOps

vars == <<lsMode, ls, idbMode, idb, idbQueue, bridges, bridgeStore, cookie, atStart,
          backend, cache, idbHandle, ready, persistSet, persistRemove,
          persistClear, pc, result, cursorPos, last, expect, tagWrites, tried,
          calls, dispatched, cacheAtReady, nativeFailed, earlyWrite, opsDone,
          state, appPc, now, lastApp, rewardedToday, appOps>>

\* ------------------------------------------------------------ bindings
\* What persistSet/persistRemove/persistClear currently are: the arrow
\* function assigned, named by the native API it calls.
NoOp == [kind |-> "noop", name |-> ""]
LsBinding == [kind |-> "localStorage", name |-> ""]
IdbBinding == [kind |-> "indexedDB", name |-> ""]
AndroidBinding(kind, name) == [kind |-> kind, name |-> name]

\* 'android:' + name, line 125.
AndroidTag(name) ==
  CASE name = "AndroidStorage" -> "android:AndroidStorage"
    [] name = "Android" -> "android:Android"
    [] name = "AndroidBridge" -> "android:AndroidBridge"
    [] name = "android" -> "android:android"

\* ----------------------------------------------------- the environment
EmptyStore == [k \in {} |-> NullV]
Stores(ks, n) ==
  UNION {[d -> StoredValues] : d \in {x \in SUBSET ks : Cardinality(x) <= n}}

\* window[name]: absent, or an object with some of the bridge methods.
Absent == [present |-> FALSE, methods |-> {}]
Bridge(ms) == [present |-> TRUE, methods |-> ms]
BridgeShapes == {{"getItem", "setItem", "removeItem"}, {"setItem"},
                 {"getItem", "set"}, {"getItem"}}
NoBridges == [n \in CandidateNames |-> Absent]
Present(w) == {n \in CandidateNames : w[n].present}
Readable(w) == {n \in CandidateNames : w[n].present /\ "getItem" \in w[n].methods}

\* decodeURIComponent, line 170, on the tokens of the model: "%61" is an
\* escaped "a", a lone "%" is a malformed escape (URIError), undefined is
\* converted to the text "undefined".
Decode(tok) ==
  CASE tok = "%61" -> Str("a")
    [] tok = "%" -> ThrowV
    [] tok = UndefinedV.s -> Str("undefined")
    [] OTHER -> Str(tok)

\* Which stores a session reads, given how the earlier candidates fare.
IdbTried == lsMode # "ok"
BridgeTried == IdbTried /\ idbMode # "ok"
CookieTried == BridgeTried /\ Readable(bridges) = {}

\* What a session never reads is left out of the enumeration.
Unread ==
  /\ lsMode = "probeThrows" => ls = EmptyStore
  /\ (~IdbTried \/ idbMode # "ok") => idb = EmptyStore
  /\ (~BridgeTried \/ Readable(bridges) = {}) => bridgeStore = EmptyStore
  /\ ~CookieTried => cookie = <<>>

\* user: null of line 212, before loadState assigns it.
NoUser == [stars |-> 0, lastAssignedDate |-> 0, completedMissionsToday |-> <<>>]

\* The application before boot() has run initApp; state is as line 211
\* will make it.
AppInit ==
  /\ state = [user |-> NoUser, missions |-> <<>>, transactions |-> <<>>,
              history |-> <<>>, todayMissions |-> <<>>, todayDate |-> 0]
  /\ appPc = "boot"
  /\ now = 0
  /\ lastApp = [op |-> "none", id |-> 0, amount |-> "", ret |-> "undefined"]
  /\ rewardedToday = <<>>
  /\ appOps = 0

ProgramInit ==
  /\ AppInit
  /\ atStart = [ls |-> ls, idb |-> idb, bridgeStore |-> bridgeStore]
  /\ backend = "none"
  /\ cache = EmptyObj
  /\ idbHandle = "null"
  /\ ready = "pending"
  /\ persistSet = NoOp
  /\ persistRemove = NoOp
  /\ persistClear = NoOp
  /\ pc = "start"
  /\ result = "none"
  /\ cursorPos = 0
  /\ idbQueue = <<>>
  /\ last = [op |-> "none", key |-> "", val |-> NullV, native |-> NoOp,
             called |-> FALSE, nativeThrew |-> FALSE, threw |-> FALSE,
             ret |-> UndefinedV]
  /\ expect = [k \in Keys |-> [t |-> "unknown", s |-> ""]]
  /\ tagWrites = 0
  /\ tried = <<>>
  /\ calls = <<>>
  /\ dispatched = <<>>
  /\ cacheAtReady = EmptyObj
  /\ nativeFailed = FALSE
  /\ earlyWrite = FALSE
  /\ opsDone = 0

\* Sessions with consumer calls: one entry per store at most, and four
\* windows: no bridge global, a complete bridge, a bridge without getItem,
\* and an unreadable bridge ahead of a readable one.
BridgeWindows ==
  {NoBridges,
   [NoBridges EXCEPT !["Android"] = Bridge({"getItem", "setItem", "removeItem"})],
   [NoBridges EXCEPT !["Android"] = Bridge({"setItem"})],
   [NoBridges EXCEPT !["AndroidStorage"] = Bridge({"setItem"}),
                     !["android"] = Bridge({"getItem", "set"})]}

Init ==
  /\ lsMode \in {"ok", "probeThrows", "loadThrows"}
  /\ idbMode \in {"ok", "openError", "txThrows"}
  /\ ls \in Stores({"a"}, 1)
  /\ idb \in Stores({"a"}, 1)
  /\ bridgeStore \in Stores({"migstar_user"}, 1)
  /\ bridges \in BridgeWindows
  /\ cookie \in {<<>>, << <<"%61", "1">> >>}
  /\ lsMode = "loadThrows" => ls # EmptyStore
  /\ ~IdbTried => idbMode = "openError"
  /\ ~BridgeTried => bridges = NoBridges
  /\ (BridgeTried /\ Readable(bridges) # {}) => bridgeStore # EmptyStore
  /\ CookieTried => cookie # <<>>
  /\ Unread
  /\ ProgramInit

\* Sessions without consumer calls: every combination of the three
\* candidates' availability, MaxEntries persisted entries in all.
InitAll ==
  /\ lsMode \in {"ok", "probeThrows", "loadThrows"}
  /\ idbMode \in {"ok", "openError", "txThrows"}
  /\ ls \in Stores(Keys, MaxEntries)
  /\ idb \in Stores(Keys, MaxEntries)
  /\ bridgeStore \in Stores({"a", "migstar_user"}, MaxEntries)
  /\ Cardinality(DOMAIN ls) + Cardinality(DOMAIN idb)
        + Cardinality(DOMAIN bridgeStore) <= MaxEntries
  /\ bridges \in [CandidateNames -> {Absent} \cup {Bridge(ms) : ms \in BridgeShapes}]
  /\ Cardinality(Present(bridges)) <= MaxBridges
  /\ cookie \in {<<>>, << <<"%61", "1">> >>}
  /\ Unread
  /\ ProgramInit

\* -------------------------------------------------- init(), lines 153-175
appUnchanged == UNCHANGED <<state, appPc, now, lastApp, rewardedToday, appOps>>
envUnchanged ==
  /\ UNCHANGED <<lsMode, idbMode, bridges, cookie, atStart>>
  /\ appUnchanged
obsUnchanged ==
  UNCHANGED <<last, expect, opsDone, calls, dispatched, cacheAtReady,
              nativeFailed, earlyWrite>>

\* A try* call starts (lines 155, 159, 163); the call last started settles.
Attempt(c, r) == [c |-> c, r |-> r]
Settle(t, r) == [t EXCEPT ![Len(t)].r = r]

\* The keys localStorage enumerates that the loop of lines 44-48 stores:
\* if (k) skips the empty key.
LsLoadable(st) == {k \in DOMAIN st : k # ""}

\* tryLocalStorage(), lines 37-56, called from init() at line 155; the
\* function has no await and runs to its end before init() suspends.  The
\* rest of the script then runs to line 186, which exposes the object.
TryLocalStorage ==
  /\ pc = "start"
  /\ pc' = "awaitLS"
  /\ IF lsMode = "probeThrows"
     THEN \* line 40 throws: catch, return false
          /\ result' = "false"
          /\ UNCHANGED <<ls, backend, tagWrites, cache, persistSet,
                         persistRemove, persistClear>>
     ELSE \* lines 40-41 write and delete the test key
          LET probed == StoreDelete(ls, testKey) IN
          /\ ls' = probed
          /\ backend' = "localStorage"
          /\ tagWrites' = tagWrites + 1
          /\ IF lsMode = "ok"
             THEN /\ cache' = PutAll(cache, probed, LsLoadable(probed))
                  /\ persistSet' = LsBinding
                  /\ persistRemove' = LsBinding
                  /\ persistClear' = LsBinding
                  /\ result' = "true"
             ELSE \* key(i) or getItem(k) throws in some iteration (or
                  \* length does): the entries of the earlier iterations
                  \* are in the cache, the bindings are not assigned
                  /\ \E done \in SUBSET (DOMAIN probed) :
                       /\ done = DOMAIN probed => done = {}
                       /\ cache' = PutAll(cache, probed, LsLoadable(probed) \cap done)
                  /\ result' = "false"
                  /\ UNCHANGED <<persistSet, persistRemove, persistClear>>
  /\ tried' = Append(tried, Attempt("localStorage", result'))
  /\ UNCHANGED <<idb, idbQueue, bridgeStore, idbHandle, ready, cursorPos>>
  /\ envUnchanged /\ obsUnchanged

\* Line 155 without its return: init() goes on to the next candidate.
LsSelectedNoReturn(res) == FALSE

\* if (await tryLocalStorage()) return storage, line 155.
LsSelected(res) == res = "true"

\* init() resumes after line 155: returns, or calls tryIndexedDB(), which
\* calls openIndexedDB() (lines 58-69) and suspends at line 73.
InitAfterLS ==
  /\ pc = "awaitLS"
  /\ pc' = IF LsSelected(result) THEN "returned" ELSE "awaitOpen"
  /\ tried' = IF LsSelected(result) THEN tried
              ELSE Append(tried, Attempt("indexedDB", "pending"))
  /\ result' = "none"
  /\ UNCHANGED <<ls, idb, idbQueue, bridgeStore, backend, cache, idbHandle,
                 ready, persistSet, persistRemove, persistClear, cursorPos,
                 tagWrites>>
  /\ envUnchanged /\ obsUnchanged

\* The open request settles (lines 60, 66, 67) and tryIndexedDB() resumes
\* at line 73 and runs to the cursor request of line 79.
IdbOpenSettled ==
  /\ pc = "awaitOpen"
  /\ IF idbMode = "openError"
     THEN \* rej: the await throws, catch at line 111, return false
          /\ result' = "false"
          /\ pc' = "awaitIDB"
          /\ UNCHANGED <<idbHandle, backend, tagWrites, cursorPos>>
     ELSE /\ idbHandle' = "db"
          /\ backend' = "indexedDB"
          /\ tagWrites' = tagWrites + 1
          /\ IF idbMode = "txThrows"
             THEN \* db.transaction('kv') throws: catch, return false
                  /\ result' = "false"
                  /\ pc' = "awaitIDB"
                  /\ UNCHANGED cursorPos
             ELSE /\ result' = "none"
                  /\ pc' = "cursor"
                  /\ cursorPos' = 0
  /\ tried' = IF result' = "false" THEN Settle(tried, "false") ELSE tried
  /\ UNCHANGED <<ls, idb, idbQueue, bridgeStore, cache, ready, persistSet,
                 persistRemove, persistClear>>
  /\ envUnchanged /\ obsUnchanged

\* The positions of KeyOrder after pos whose key the object store holds.
CursorAhead(pos) == {i \in (pos + 1)..Len(KeyOrder) : KeyOrder[i] \in DOMAIN idb}
Min(S) == CHOOSE x \in S : \A y \in S : x <= y

\* allReq.onsuccess, lines 81-108.
CursorSuccess ==
  /\ pc = "cursor"
  /\ IF CursorAhead(cursorPos) # {}
     THEN LET i == Min(CursorAhead(cursorPos)) IN
          /\ cache' = ObjPut(cache, KeyOrder[i], idb[KeyOrder[i]])
          /\ cursorPos' = i
          /\ UNCHANGED <<persistSet, persistRemove, persistClear, result, pc,
                         tried>>
     ELSE /\ persistSet' = IdbBinding
          /\ persistRemove' = IdbBinding
          /\ persistClear' = IdbBinding
          /\ result' = "true"
          /\ pc' = "awaitIDB"
          /\ tried' = Settle(tried, "true")
          /\ UNCHANGED <<cache, cursorPos>>
  /\ UNCHANGED <<ls, idb, idbQueue, bridgeStore, backend, idbHandle, ready,
                 tagWrites>>
  /\ envUnchanged /\ obsUnchanged

\* allReq.onerror, line 109: rej.  The promise was returned at line 80
\* without await, so the catch of line 111 does not see the rejection:
\* the promise of tryIndexedDB() is rejected.
CursorError ==
  /\ pc = "cursor"
  /\ result' = "rejected"
  /\ pc' = "awaitIDB"
  /\ tried' = Settle(tried, "rejected")
  /\ UNCHANGED <<ls, idb, idbQueue, bridgeStore, backend, cache, idbHandle,
                 ready, persistSet, persistRemove, persistClear, cursorPos,
                 tagWrites>>
  /\ envUnchanged /\ obsUnchanged

\* persistSet as lines 127-133 choose it for the bridge object api.
BridgeSetBinding(name, api) ==
  IF "setItem" \in api.methods THEN AndroidBinding("android.setItem", name)
  ELSE IF "set" \in api.methods THEN AndroidBinding("android.set", name)
  ELSE AndroidBinding("android.warn", name)

\* The well-known keys the bridge answers with a value, lines 137-143.
BridgeLoadable == {k \in keysToTry : StoreGet(bridgeStore, k) # NullV}

\* A bridge taken as readable for any method it has.
HasAnyMethod(api) == api.methods # {}

\* typeof api.getItem === 'function', line 134.
HasGetItem(api) == "getItem" \in api.methods

\* tryAndroidBridge(), lines 117-150: the loop from candidate i on, st
\* being the fields written so far.
RECURSIVE ScanBridges(_, _)
ScanBridges(i, st) ==
  IF i > Len(candidates) THEN st
  ELSE LET name == candidates[i]
           api == bridges[name]
           st1 == [st EXCEPT !.backend = AndroidTag(name),
                             !.tagWrites = @ + 1,
                             !.persistSet = BridgeSetBinding(name, api)]
       IN IF ~api.present THEN ScanBridges(i + 1, st)
          ELSE IF HasGetItem(api)
          THEN [st1 EXCEPT !.persistRemove = AndroidBinding("android.removeItem", name),
                           !.cache = PutAll(@, bridgeStore, BridgeLoadable),
                           !.ok = TRUE]
          ELSE ScanBridges(i + 1, st1)

\* Line 159 without its return: init() goes on to the bridge.
IdbSelectedNoReturn(res) == FALSE

\* if (await tryIndexedDB()) return storage, line 159.
IdbSelected(res) == res = "true"

\* init() resumes after line 159: returns, or throws with the rejection,
\* or calls tryAndroidBridge(), which has no await.
InitAfterIDB ==
  /\ pc = "awaitIDB"
  /\ IF IdbSelected(result)
     THEN /\ pc' = "returned"
          /\ result' = "none"
          /\ UNCHANGED <<backend, tagWrites, persistSet, persistRemove, cache,
                         tried>>
     ELSE IF result = "rejected"
     THEN /\ pc' = "threw"
          /\ result' = "none"
          /\ UNCHANGED <<backend, tagWrites, persistSet, persistRemove, cache,
                         tried>>
     ELSE LET st == ScanBridges(1, [backend |-> backend, tagWrites |-> tagWrites,
                                    persistSet |-> persistSet,
                                    persistRemove |-> persistRemove,
                                    cache |-> cache, ok |-> FALSE]) IN
          /\ pc' = "awaitBridge"
          /\ result' = IF st.ok THEN "true" ELSE "false"
          /\ tried' = Append(tried, Attempt("android", result'))
          /\ backend' = st.backend
          /\ tagWrites' = st.tagWrites
          /\ persistSet' = st.persistSet
          /\ persistRemove' = st.persistRemove
          /\ cache' = st.cache
  /\ UNCHANGED <<ls, idb, idbQueue, bridgeStore, idbHandle, ready,
                 persistClear, cursorPos>>
  /\ envUnchanged /\ obsUnchanged

\* cookies.forEach(([k,v]) => ...), line 170: entry by entry; an entry whose
\* key or value does not decode throws inside its own try and is skipped.
\* An entry with no "=" has v undefined; one with two has its tail dropped.
RECURSIVE LoadCookies(_, _, _)
LoadCookies(obj, jar, i) ==
  IF i > Len(jar) THEN obj
  ELSE LET k == Decode(jar[i][1])
           v == Decode(IF Len(jar[i]) >= 2 THEN jar[i][2] ELSE UndefinedV.s)
       IN LoadCookies(IF k = ThrowV \/ v = ThrowV THEN obj ELSE ObjPut(obj, k.s, v),
                      jar, i + 1)

\* init() resumes after line 163: returns, or falls back (lines 166-174).
InitAfterBridge ==
  /\ pc = "awaitBridge"
  /\ pc' = "returned"
  /\ result' = "none"
  /\ IF result = "true"
     THEN UNCHANGED <<cache, backend, tagWrites>>
     ELSE /\ cache' = LoadCookies(cache, cookie, 1)
          /\ backend' = "memory"
          /\ tagWrites' = tagWrites + 1
  /\ UNCHANGED <<ls, idb, idbQueue, bridgeStore, idbHandle, ready, persistSet,
                 persistRemove, persistClear, cursorPos, tried>>
  /\ envUnchanged /\ obsUnchanged

\* storage.ready not waiting for the cursor: fulfilled while the bulk load
\* is still running.
InitFulfilledEarly(p) == p \in {"returned", "cursor"}

\* Whether the promise of init() is fulfilled.
InitFulfilled(p) == p = "returned"

\* storage.ready = init().then(...), lines 177-182: the callback runs once
\* init() has returned and fulfils storage.ready.
ReadyThen ==
  /\ InitFulfilled(pc)
  /\ ready = "pending"
  /\ ready' = "fulfilled"
  /\ cacheAtReady' = cache
  /\ UNCHANGED <<ls, idb, idbQueue, bridgeStore, backend, cache, idbHandle,
                 persistSet, persistRemove, persistClear, pc, result,
                 cursorPos, tagWrites, tried>>
  /\ UNCHANGED <<last, expect, opsDone, calls, dispatched, nativeFailed,
                 earlyWrite>>
  /\ envUnchanged

\* init() threw: then() passes the rejection on to storage.ready.
ReadyRejected ==
  /\ pc = "threw"
  /\ ready = "pending"
  /\ ready' = "rejected"
  /\ UNCHANGED <<ls, idb, idbQueue, bridgeStore, backend, cache, idbHandle,
                 persistSet, persistRemove, persistClear, pc, result,
                 cursorPos, tagWrites, tried>>
  /\ envUnchanged /\ obsUnchanged

NextInit ==
  \/ TryLocalStorage
  \/ InitAfterLS
  \/ IdbOpenSettled
  \/ CursorSuccess
  \/ CursorError
  \/ InitAfterIDB
  \/ InitAfterBridge
  \/ ReadyThen
  \/ ReadyRejected

SpecSel == InitAll /\ [][NextInit]_vars

\* The sessions of SpecSel in which a store that answered its probe (the
\* test write, the open request) does not throw afterwards.
InitSound == InitAll /\ lsMode # "loadThrows" /\ idbMode # "txThrows"
SpecSound == InitSound /\ [][NextInit]_vars

\* The sessions that end in the fallback of lines 166-174: no candidate is
\* usable, and document.cookie is any list of up to MaxCookies entries,
\* each split at "=": well-formed ones, one without "=", one whose key and
\* one whose value is a malformed escape.
CookieEntries == {<<"%61", "1">>, <<"migstar_user", "1">>, <<"a">>,
                  <<"%", "1">>, <<"a", "%">>}
Jars(n) == UNION {[1..m -> CookieEntries] : m \in 0..n}

InitFallback ==
  /\ lsMode = "probeThrows"
  /\ idbMode = "openError"
  /\ ls = EmptyStore /\ idb = EmptyStore /\ bridgeStore = EmptyStore
  /\ bridges \in {NoBridges, [NoBridges EXCEPT !["Android"] = Bridge({"setItem"})]}
  /\ cookie \in Jars(MaxCookies)
  /\ ProgramInit

NextFallback ==
  \/ TryLocalStorage
  \/ InitAfterLS
  \/ IdbOpenSettled
  \/ InitAfterIDB
  \/ InitAfterBridge
  \/ ReadyThen

SpecFallback == InitFallback /\ [][NextFallback]_vars

\* ------------------------------------------------- the facade, lines 17-29
\* Whether calling binding b reaches a native API: the no-op of lines 33-35
\* and the warning of line 132 do not; line 135 calls api.removeItem only
\* if the bridge has one.
CallsNative(b) ==
  CASE b.kind \in {"noop", "android.warn"} -> FALSE
    [] b.kind = "android.removeItem" -> "removeItem" \in bridges[b.name].methods
    [] OTHER -> TRUE

\* A binding without its try/catch.
PropagatesUncaught(b, nativeThrew) == nativeThrew

\* Whether an exception of the native call leaves the binding: every
\* binding wraps its native call in try/catch (lines 49-51, 88-105,
\* 128-135).
Propagates(b, nativeThrew) == FALSE

\* The native stores after binding b is called with request req and its
\* native call does not throw.  An IndexedDB request is only queued: its
\* transaction commits later.
Persist(b, req) ==
  /\ ls' = IF b.kind # "localStorage" THEN ls
           ELSE CASE req.op = "put" -> StorePut(ls, req.key, req.val)
                  [] req.op = "delete" -> StoreDelete(ls, req.key)
                  [] req.op = "clear" -> EmptyStore
  /\ idbQueue' = IF b.kind = "indexedDB" THEN Append(idbQueue, req) ELSE idbQueue
  /\ bridgeStore' =
       CASE b.kind \in {"android.setItem", "android.set"} ->
              StorePut(bridgeStore, req.key, req.val)
         [] b.kind = "android.removeItem" -> StoreDelete(bridgeStore, req.key)
         [] OTHER -> bridgeStore

\* What a facade call passes to its binding: persistSet(key, String(value))
\* at line 20, persistRemove(key) at line 24, persistClear() at line 28.
PersistRequestSwapped(op, key, val) ==
  CASE op = "setItem" -> [op |-> "put", key |-> key, val |-> ToString(val)]
    [] op = "removeItem" -> [op |-> "clear", key |-> "", val |-> NullV]
    [] op = "clear" -> [op |-> "delete", key |-> key, val |-> NullV]

PersistRequest(op, key, val) ==
  CASE op = "setItem" -> [op |-> "put", key |-> key, val |-> ToString(val)]
    [] op = "removeItem" -> [op |-> "delete", key |-> key, val |-> NullV]
    [] op = "clear" -> [op |-> "clear", key |-> "", val |-> NullV]

\* The call of binding b from the facade: the native call, if any, throws
\* or not; what the consumer observes is recorded in last, and after
\* readiness the call and the binding call it made are logged.
Dispatch(b, req, op, key, val) ==
  /\ calls' = IF ready = "fulfilled"
              THEN Append(calls, [op |-> op, key |-> key, val |-> val])
              ELSE calls
  /\ dispatched' = IF ready = "fulfilled" THEN Append(dispatched, req)
                   ELSE dispatched
  /\ earlyWrite' = (earlyWrite \/ ready # "fulfilled")
  /\ \E nativeThrew \in (IF CallsNative(b) THEN BOOLEAN ELSE {FALSE}) :
    /\ nativeFailed' = (nativeFailed \/ nativeThrew)
    /\ IF CallsNative(b) /\ ~nativeThrew
       THEN Persist(b, req)
       ELSE UNCHANGED <<ls, idbQueue, bridgeStore>>
    /\ last' = [op |-> op, key |-> key, val |-> val, native |-> b,
                called |-> CallsNative(b), nativeThrew |-> nativeThrew,
                threw |-> Propagates(b, nativeThrew),
                ret |-> IF Propagates(b, nativeThrew) THEN ThrowV ELSE UndefinedV]

facadeFrame ==
  /\ UNCHANGED <<idb, backend, idbHandle, ready, persistSet, persistRemove,
                 persistClear, pc, result, cursorPos, tagWrites, tried,
                 cacheAtReady>>
  /\ envUnchanged

\* The object is reachable by the consumer from line 185 on.
Exposed == pc # "start"

\* getItem(key), line 17, called by the consumer: what it returns (or that
\* it threw) is recorded in last; the method assigns nothing and calls no
\* binding.
GetItemCall(key) ==
  /\ Exposed /\ opsDone < MaxOps
  /\ last' = [op |-> "getItem", key |-> key, val |-> NullV, native |-> NoOp,
              called |-> FALSE, nativeThrew |-> FALSE,
              threw |-> GetItem(cache, key) = ThrowV,
              ret |-> GetItem(cache, key)]
  /\ opsDone' = opsDone + 1
  /\ UNCHANGED <<ls, idbQueue, bridgeStore, cache, expect, calls, dispatched,
                 nativeFailed, earlyWrite>>
  /\ facadeFrame

\* setItem(key, value), lines 18-21.
SetItem(key, value) ==
  /\ Exposed /\ opsDone < MaxOps
  /\ cache' = ObjPut(cache, key, ToString(value))
  /\ Dispatch(persistSet, PersistRequest("setItem", key, value),
              "setItem", key, value)
  /\ expect' = [expect EXCEPT ![key] = ToString(value)]
  /\ opsDone' = opsDone + 1
  /\ facadeFrame

\* removeItem(key), lines 22-25.
RemoveItem(key) ==
  /\ Exposed /\ opsDone < MaxOps
  /\ cache' = ObjDelete(cache, key)
  /\ Dispatch(persistRemove, PersistRequest("removeItem", key, NullV),
              "removeItem", key, NullV)
  /\ expect' = [expect EXCEPT ![key] = NullV]
  /\ opsDone' = opsDone + 1
  /\ facadeFrame

\* clear() keeping the cache object it found.
SameCache(obj) == obj

\* this._cache = {}, line 27: a new empty object replaces the cache.
NewCache(obj) == EmptyObj

\* clear(), lines 26-29.
Clear ==
  /\ Exposed /\ opsDone < MaxOps
  /\ cache' = NewCache(cache)
  /\ Dispatch(persistClear, PersistRequest("clear", "", NullV),
              "clear", "", NullV)
  /\ expect' = [k \in Keys |-> NullV]
  /\ opsDone' = opsDone + 1
  /\ facadeFrame

\* A write transaction of lines 90-91, 96-97 or 102-103 commits; the
\* transactions of one store commit in the order they were created.
IdbCommit ==
  /\ idbQueue # <<>>
  /\ LET req == Head(idbQueue) IN
       idb' = CASE req.op = "put" -> StorePut(idb, req.key, req.val)
                [] req.op = "delete" -> StoreDelete(idb, req.key)
                [] req.op = "clear" -> EmptyStore
  /\ idbQueue' = Tail(idbQueue)
  /\ UNCHANGED <<ls, bridgeStore, backend, cache, idbHandle, ready, persistSet,
                 persistRemove, persistClear, pc, result, cursorPos, tagWrites,
                 tried>>
  /\ envUnchanged /\ obsUnchanged

Next ==
  \/ TryLocalStorage
  \/ InitAfterLS
  \/ IdbOpenSettled
  \/ CursorSuccess
  \/ CursorError
  \/ InitAfterIDB
  \/ InitAfterBridge
  \/ ReadyThen
  \/ ReadyRejected
  \/ \E k \in ConsumerKeys : GetItemCall(k)
  \/ \E k \in ConsumerKeys, v \in ConsumerValues : SetItem(k, v)
  \/ \E k \in ConsumerKeys : RemoveItem(k)
  \/ Clear
  \/ IdbCommit

Spec == Init /\ [][Next]_vars

\* ------------------------------------------ the application, lines 192-720
\* The rewards of const missionPool, lines 248-279, by mission id.
rewards == <<10, 5, 10, 10, 5, 5, 5, 5, 10, 5, 5, 10, 5, 10, 3,
             10, 5, 10, 5, 5, 5, 5, 5, 5, 5, 5, 50, 10, 10, 15>>
\* const missionPool, cut to its first MaxMissions missions; a mission's
\* title is stood for by its id.
missionPool == [i \in 1..MaxMissions |-> [id |-> i, reward |-> rewards[i]]]

\* The ids completeMission is called with: the pool's, and one of no mission.
MissionIds == 0..MaxMissions
\* The texts receiveStars is called with (elements.amount.value).
Amounts == {"5", "2x", "0", "-3", "abc"}

\* parseInt(amount), line 379: the leading integer of the text, NaN if
\* there is none.
NaN == [t |-> "NaN", n |-> 0]
ParseInt(text) ==
  CASE text = "5" -> [t |-> "number", n |-> 5]
    [] text = "2x" -> [t |-> "number", n |-> 2]
    [] text = "0" -> [t |-> "number", n |-> 0]
    [] text = "-3" -> [t |-> "number", n |-> -3]
    [] OTHER -> NaN

\* JSON.stringify(x) as stored in the cache, and JSON.parse of it.
Json(x) == [t |-> "json", s |-> x]
Parse(v) == v.s
\* Whether a value read from the cache is truthy (userRaw ? ... : ...).
Truthy(v) == v.t = "json" \/ (v.t = "string" /\ v.s # "")
\* sGet(k), line 283: getItem, with null for an exception.
sGet(k) == IF GetItem(cache, k) = ThrowV THEN NullV ELSE GetItem(cache, k)

\* The keys and JSON texts the saves of a handler pass to sSet, written to
\* the cache (line 19) and, on localStorage, to the store (line 49).
RECURSIVE SaveCache(_, _, _)
SaveCache(obj, saves, i) ==
  IF i > Len(saves) THEN obj
  ELSE SaveCache(ObjPut(obj, saves[i][1], Json(saves[i][2])), saves, i + 1)
RECURSIVE SaveStore(_, _, _)
SaveStore(st, saves, i) ==
  IF i > Len(saves) THEN st
  ELSE SaveStore(StorePut(st, saves[i][1], Json(saves[i][2])), saves, i + 1)
Saved(saves) ==
  /\ cache' = SaveCache(cache, saves, 1)
  /\ ls' = IF persistSet = LsBinding THEN SaveStore(ls, saves, 1) ELSE ls

storageUnchanged ==
  UNCHANGED <<lsMode, idbMode, bridges, cookie, atStart, idb, idbQueue,
              bridgeStore, backend, idbHandle, ready, persistSet, persistRemove,
              persistClear, pc, result, cursorPos, last, expect, tagWrites,
              tried, calls, dispatched, cacheAtReady, nativeFailed, earlyWrite,
              opsDone>>

\* The elements of sequence q.
Range(q) == {q[i] : i \in DOMAIN q}
\* The sequences of n distinct elements of S.
Arrangements(S, n) ==
  {q \in [1..n -> S] : \A i, j \in 1..n : i # j => q[i] # q[j]}

\* assignDailyMissions(), lines 321-326: what todayMissions may become.
\* The random sort gives some order of the available missions, of which
\* the first three are kept.
Available(st) ==
  {m \in Range(st.missions) : m.id \notin Range(st.user.completedMissionsToday)}
Assignments(st) ==
  Arrangements(Available(st),
               IF Cardinality(Available(st)) < 3 THEN Cardinality(Available(st)) ELSE 3)

\* loadState(), lines 288-308.
LoadState(st) ==
  [st EXCEPT
     !.user = IF Truthy(sGet("migstar_user")) THEN Parse(sGet("migstar_user"))
              ELSE [stars |-> 50, lastAssignedDate |-> st.todayDate,
                    completedMissionsToday |-> <<>>],
     !.missions = IF Truthy(sGet("migstar_missionPool"))
                  THEN Parse(sGet("migstar_missionPool")) ELSE missionPool,
     !.transactions = IF Truthy(sGet("migstar_transactions"))
                      THEN Parse(sGet("migstar_transactions")) ELSE <<>>,
     !.history = IF Truthy(sGet("migstar_history"))
                 THEN Parse(sGet("migstar_history")) ELSE <<>>,
     !.todayMissions = IF Truthy(sGet("migstar_todayMissions"))
                       THEN Parse(sGet("migstar_todayMissions")) ELSE <<>>]

\* boot() resumes after storage.ready (line 196) and runs initApp(): the
\* state of line 211, loadState() and checkNewDay() (lines 699-700).
InitApp ==
  /\ appPc = "boot" /\ ready = "fulfilled"
  /\ appPc' = "running"
  /\ LET loaded == LoadState([state EXCEPT !.todayDate = now]) IN
       IF loaded.user.lastAssignedDate # loaded.todayDate
       THEN \E today \in Assignments(loaded) :
              /\ state' = [loaded EXCEPT !.todayMissions = today,
                                         !.user.lastAssignedDate = loaded.todayDate,
                                         !.user.completedMissionsToday = <<>>]
              /\ Saved(<<(<<"migstar_todayMissions", today>>),
                         (<<"migstar_user", state'.user>>)>>)
              /\ rewardedToday' = <<>>
       ELSE IF loaded.todayMissions = <<>>
       THEN \E today \in Assignments(loaded) :
              /\ state' = [loaded EXCEPT !.todayMissions = today]
              /\ Saved(<< <<"migstar_todayMissions", today>> >>)
              /\ UNCHANGED rewardedToday
       ELSE /\ state' = loaded
            /\ UNCHANGED <<cache, ls, rewardedToday>>
  /\ UNCHANGED <<now, lastApp, appOps>>
  /\ storageUnchanged

\* completeMission ignoring the list of completed missions.
AlreadyCompletedNever(user, missionId) == FALSE

\* state.user.completedMissionsToday.includes(missionId), line 362.
AlreadyCompleted(user, missionId) ==
  missionId \in Range(user.completedMissionsToday)

\* completeMission(missionId), lines 359-376.
completeMission(missionId) ==
  /\ appPc = "running" /\ appOps < MaxAppOps
  /\ appOps' = appOps + 1
  /\ lastApp' = [op |-> "completeMission", id |-> missionId, amount |-> "",
                 ret |-> "undefined"]
  /\ IF \/ \A m \in Range(state.todayMissions) : m.id # missionId
        \/ AlreadyCompleted(state.user, missionId)
     THEN UNCHANGED <<state, cache, ls, rewardedToday>>
     ELSE LET mission == CHOOSE m \in Range(state.todayMissions) : m.id = missionId
              item == [type |-> "mission", title |-> mission.id,
                       reward |-> mission.reward, date |-> now]
          IN /\ state' = [state EXCEPT
                            !.user.stars = @ + mission.reward,
                            !.user.completedMissionsToday = Append(@, missionId),
                            !.history = <<item>> \o @]
             /\ Saved(<<(<<"migstar_user", state'.user>>),
                        (<<"migstar_history", state'.history>>)>>)
             /\ rewardedToday' = Append(rewardedToday, missionId)
  /\ UNCHANGED <<appPc, now>>
  /\ storageUnchanged

\* receiveStars rejecting only what does not parse.
InvalidOnlyNaN(amount) == amount = NaN

\* isNaN(amount) || amount <= 0, line 380.
Invalid(amount) == amount = NaN \/ amount.n <= 0

\* receiveStars(amount), lines 378-396.
receiveStars(text) ==
  /\ appPc = "running" /\ appOps < MaxAppOps
  /\ appOps' = appOps + 1
  /\ LET amount == ParseInt(text) IN
       IF Invalid(amount)
       THEN /\ lastApp' = [op |-> "receiveStars", id |-> 0, amount |-> text,
                           ret |-> "false"]
            /\ UNCHANGED <<state, cache, ls>>
       ELSE LET transaction == [amount |-> amount.n, datetime |-> now]
                item == [type |-> "transaction", amount |-> amount.n, date |-> now]
            IN /\ lastApp' = [op |-> "receiveStars", id |-> 0, amount |-> text,
                              ret |-> "true"]
               /\ state' = [state EXCEPT
                              !.user.stars = @ + amount.n,
                              !.transactions = <<transaction>> \o @,
                              !.history = <<item>> \o @]
               /\ Saved(<<(<<"migstar_user", state'.user>>),
                          (<<"migstar_transactions", state'.transactions>>),
                          (<<"migstar_history", state'.history>>)>>)
  /\ UNCHANGED <<appPc, now, rewardedToday>>
  /\ storageUnchanged

\* Midnight (UTC) passes: new Date().toISOString().split('T')[0] changes.
Midnight ==
  /\ now < MaxDays
  /\ now' = now + 1
  /\ UNCHANGED <<state, appPc, lastApp, rewardedToday, appOps, cache, ls>>
  /\ storageUnchanged

\* The callback of the interval of lines 706-717, on a new day.
DayChange ==
  /\ appPc = "running"
  /\ now # state.todayDate
  /\ \E today \in Assignments(state) :
       /\ state' = [state EXCEPT !.todayDate = now,
                                 !.todayMissions = today,
                                 !.user.lastAssignedDate = now,
                                 !.user.completedMissionsToday = <<>>]
       /\ Saved(<<(<<"migstar_todayMissions", today>>),
                  (<<"migstar_user", state'.user>>)>>)
  /\ rewardedToday' = <<>>
  /\ UNCHANGED <<appPc, now, lastApp, appOps>>
  /\ storageUnchanged

\* A session on an empty localStorage, with the application.
InitAppSession ==
  /\ lsMode = "ok" /\ idbMode = "openError"
  /\ ls = EmptyStore /\ idb = EmptyStore /\ bridgeStore = EmptyStore
  /\ bridges = NoBridges /\ cookie = <<>>
  /\ ProgramInit

NextApp ==
  \/ TryLocalStorage
  \/ InitAfterLS
  \/ ReadyThen
  \/ InitApp
  \/ \E id \in MissionIds : completeMission(id)
  \/ \E text \in Amounts : receiveStars(text)
  \/ Midnight
  \/ DayChange

SpecApp == InitAppSession /\ [][NextApp]_vars

\* ------------------------------------------------------------- claims
AndroidTags == {AndroidTag(n) : n \in CandidateNames}
ConsumerStep == opsDone' = opsDone + 1
Bindings == <<persistSet, persistRemove, persistClear>>

\* C1: cache-first invariant.  After any sequence of setItem/removeItem/
\* clear calls, for every key the calls affected, getItem returns String(v)
\* if the last call affecting it was setItem(k, v) and null if it was
\* removeItem(k) or clear(), whichever backend is selected and whether or
\* not the native calls threw.
C1_CacheFirst ==
  \A k \in Keys : expect[k].t # "unknown" => GetItem(cache, k) = expect[k]

\* C2: round trip.  Right after setItem(k, v) returns, getItem(k) is
\* String(v), for every non-empty key k, the names the cache object
\* inherits included, and getItem of every other key returns normally.
C2_RoundTrip ==
  [][(ConsumerStep /\ last'.op = "setItem" /\ last'.key # "")
       => /\ GetItem(cache', last'.key) = ToString(last'.val)
          /\ \A k \in Keys : GetItem(cache', k) # ThrowV]_vars

\* The entries the selected backend held when initialization started.
SelectedAtStart == IF backend = "localStorage" THEN atStart.ls ELSE atStart.idb

\* C3: bulk-load fidelity.  With no consumer call before readiness, once
\* readiness resolves with the synchronous or the async store selected,
\* getItem(k) is E[k] for every key of the entry set E the store held at
\* the start, and null for every other key.
C3_BulkLoadFidelity ==
  (ready = "fulfilled" /\ backend \in {"localStorage", "indexedDB"})
    => \A k \in Keys : GetItem(cache, k) = StoreGet(SelectedAtStart, k)

\* C4: backend priority.  Whenever the synchronous store is available (its
\* probe and its load succeed), the backend tag after readiness is
\* 'localStorage', whatever the async store and the bridge globals are.
C4_BackendPriority ==
  (lsMode = "ok" /\ ready = "fulfilled") => backend = "localStorage"

\* Readiness reached with localStorage selected although IndexedDB opens
\* and a readable bridge is present.
C4_Witness ==
  /\ lsMode = "ok" /\ idbMode = "ok" /\ Readable(bridges) # {}
  /\ ready = "fulfilled" /\ backend = "localStorage"
  /\ cache # EmptyObj

\* No native backend is usable: the synchronous probe throws, the database
\* does not open, no bridge global has a callable getItem.
NoNativeBackend ==
  lsMode = "probeThrows" /\ idbMode = "openError" /\ Readable(bridges) = {}

\* C5: fallback correctness.  When no native backend is usable, a bridge
\* global without getItem included, readiness resolves with the tag
\* 'memory' and no-op bindings, and the facade calls work on the cache
\* alone: none throws, none reaches a native call.
C5_FallbackPure ==
  (NoNativeBackend /\ ready # "pending")
    => /\ ready = "fulfilled"
       /\ backend = "memory"
       /\ Bindings = <<NoOp, NoOp, NoOp>>
       /\ ~last.called /\ ~last.threw
       /\ \A k \in Keys : GetItem(cache, k) # ThrowV

\* C6: readiness always resolves.  Once initialization has started, and
\* every native request issued reports success or error, storage.ready is
\* never rejected, whatever the probes and the load report.  (The claim
\* also says it is eventually fulfilled; a rejected promise never is.)
C6_ReadinessNeverRejected == ready # "rejected"

\* The cache a facade call leaves, given the cache it found.
CacheAfter(c, call) ==
  CASE call.op = "setItem" -> ObjPut(c, call.key, ToString(call.val))
    [] call.op = "removeItem" -> ObjDelete(c, call.key)
    [] call.op = "clear" -> EmptyObj

\* C7: persistence failures never propagate.  When the native call bound
\* to setItem, removeItem or clear throws, the facade call returns
\* normally and the cache holds the call's update: it is not rolled back.
C7_FailuresContained ==
  [][(ConsumerStep /\ last'.nativeThrew)
       => ~last'.threw /\ cache' = CacheAfter(cache, last')]_vars

\* A setItem whose native call (the IndexedDB transaction) threw: the call
\* returned normally and the value is readable from the cache.
C7_Witness ==
  /\ last.op = "setItem" /\ last.key = "a" /\ last.nativeThrew /\ ~last.threw
  /\ last.native.kind = "indexedDB"
  /\ GetItem(cache, "a") = Str("2")

\* C8: backend selection is single-assignment.  Over a session the backend
\* tag is assigned a backend name exactly once: never a second time, and
\* once by the time readiness resolves.
C8_SingleAssignment ==
  /\ tagWrites <= 1
  /\ ready = "fulfilled" => tagWrites = 1

\* C9: readiness implies finalization.  Whenever storage.ready is
\* fulfilled init() has returned (tag, bindings and bulk load are final);
\* from then on the tag and the bindings never change and the cache
\* changes only in a consumer's setItem/removeItem/clear; and the promise,
\* once settled, keeps its state.
C9_ReadinessFinal ==
  /\ [](ready = "fulfilled" => pc = "returned")
  /\ [][ready # "pending"
          => /\ ready' = ready
             /\ ready = "fulfilled"
                  => /\ backend' = backend
                     /\ Bindings' = Bindings
                     /\ cache' # cache => ConsumerStep]_vars

\* Readiness reached after a bulk load from IndexedDB, and a consumer call
\* after it.
C9_Witness ==
  /\ ready = "fulfilled" /\ backend = "indexedDB" /\ atStart.idb # EmptyStore
  /\ persistSet = IdbBinding
  /\ last.op = "setItem" /\ last.called

\* C10: partial host-bridge load.  With a host bridge selected and no
\* consumer call before readiness, after readiness getItem(k) is the
\* bridge's value for every well-known key the bridge answers with a
\* value, and null for every key outside the well-known list.
C10_PartialBridgeLoad ==
  (ready = "fulfilled" /\ backend \in AndroidTags)
    => \A k \in Keys \cup keysToTry :
         /\ (k \in keysToTry /\ StoreGet(atStart.bridgeStore, k) # NullV)
              => GetItem(cache, k) = atStart.bridgeStore[k]
         /\ k \notin keysToTry => GetItem(cache, k) = NullV

\* Whether a step is the consumer's call of the facade method op.
Called(op) == ConsumerStep /\ last'.op = op

\* C11: getItem is a pure read.  In every state, before or after
\* readiness, getItem(k) returns the cache's current value for k, or null
\* when the cache has none; it reaches no native call and leaves the cache,
\* the backend tag, the bindings and the native stores as they were.
C11_PureRead ==
  [][Called("getItem")
       => /\ last'.ret = StoreGet(cache, last'.key)
          /\ ~last'.threw /\ ~last'.called
          /\ cache' = cache /\ backend' = backend /\ Bindings' = Bindings
          /\ <<ls, idb, idbQueue, bridgeStore>>' = <<ls, idb, idbQueue, bridgeStore>>]_vars

\* C12: clear() is idempotent.  In every state every clear() leaves the
\* cache without any entry and returns normally, so of two calls in a row
\* the first leaves the cache empty and the second, finding it empty,
\* leaves it empty again.
C12_ClearIdempotent ==
  [][Called("clear")
       => /\ DOMAIN cache' = {} /\ ~last'.threw
          /\ \A k \in Keys : GetItem(cache', k) = NullV]_vars

\* Two clear() calls in a row after readiness, the first on a cache that
\* held an entry, the second with its native call throwing.
C12_Witness ==
  /\ Len(calls) = 2 /\ calls[1].op = "clear" /\ calls[2].op = "clear"
  /\ cacheAtReady # EmptyObj /\ DOMAIN cache = {}
  /\ last.op = "clear" /\ last.nativeThrew /\ ~last.threw
\* Whether candidate c has been attempted, and what its attempt settled to.
Tried(c) == \E i \in DOMAIN tried : tried[i].c = c
Outcome(c) == tried[CHOOSE i \in DOMAIN tried : tried[i].c = c].r
Failed(c) == Tried(c) /\ Outcome(c) \in {"false", "rejected"}

\* C13: an async-store load failure advances the sequencer.  When the
\* database opened and the read transaction or a cursor step reported an
\* error, the attempt counts as a failure: init() is not aborted, and once
\* it resumes from the attempt it has gone on to the host-bridge probe.
C13_LoadFailureAdvances ==
  (idbHandle = "db" /\ Failed("indexedDB"))
    => /\ pc # "threw"
       /\ pc # "awaitIDB" => Tried("android")
\* The backend tags that name a native backend, and the backend a
\* binding's native call goes to.
NativeTags == {"localStorage", "indexedDB"} \cup AndroidTags
Target(b) ==
  CASE b.kind \in {"localStorage", "indexedDB"} -> b.kind
    [] b.kind \in {"android.setItem", "android.set", "android.removeItem"} ->
         AndroidTag(b.name)
    [] OTHER -> "none"
Mutation == Called("setItem") \/ Called("removeItem") \/ Called("clear")

\* C14: bindings match the selected backend.  After readiness with a
\* native backend selected, setItem, removeItem and clear each dispatch
\* their native call (write, delete, clear) to the backend the tag names,
\* and to no other.
C14_BindingsMatchBackend ==
  [][(ready = "fulfilled" /\ backend \in NativeTags /\ Mutation)
       => last'.called /\ Target(last'.native) = backend]_vars
\* The candidates in the order init() tries them, lines 155, 159, 163.
Priority == <<"localStorage", "indexedDB", "android">>

\* C15: strict priority order without revisits.  The attempts made so far
\* are the first candidates of the order synchronous store, async store,
\* host bridge, each once; every attempt but the latest has failed, so a
\* candidate is attempted only after all earlier ones failed and none is
\* attempted after a success.
C15_PriorityOrder ==
  /\ Len(tried) <= Len(Priority)
  /\ \A i \in DOMAIN tried :
       /\ tried[i].c = Priority[i]
       /\ i < Len(tried) => tried[i].r \in {"false", "rejected"}

\* Readiness with IndexedDB selected after localStorage failed: the
\* readable bridge global on window was never attempted.
C15_Witness ==
  /\ ready = "fulfilled" /\ Readable(bridges) # {}
  /\ tried = <<Attempt("localStorage", "false"), Attempt("indexedDB", "true")>>
\* Whether binding call req is the persistence call of facade call call:
\* the write, delete or clear of the same key, a write with the text of
\* the call's value.
Corresponds(call, req) ==
  /\ req.key = call.key
  /\ CASE call.op = "setItem" ->
            req.op = "put" /\ req.val.t = "string" /\ req.val.s = call.val.s
       [] call.op = "removeItem" -> req.op = "delete"
       [] call.op = "clear" -> req.op = "clear"

\* The cache after the calls cs[i], cs[i+1], ... are applied to c in order.
RECURSIVE Replay(_, _, _)
Replay(c, cs, i) ==
  IF i > Len(cs) THEN c ELSE Replay(CacheAfter(c, cs[i]), cs, i + 1)

\* C16: write ordering.  After readiness every setItem/removeItem/clear
\* has made its persistence call by the time it returns: the sequence of
\* persistence calls made equals the sequence of facade calls (operation
\* for operation, same key, same value, same order), and the cache is the
\* cache at readiness with the calls applied in call order.
C16_WriteOrdering ==
  /\ Len(dispatched) = Len(calls)
  /\ \A i \in DOMAIN calls : Corresponds(calls[i], dispatched[i])
  /\ ready = "fulfilled" => cache = Replay(cacheAtReady, calls, 1)

\* After readiness on IndexedDB: setItem('a', 2) then removeItem('a'); the
\* two requests wait in that order for their transactions to commit and
\* the cache has no 'a'.
C16_Witness ==
  /\ backend = "indexedDB" /\ Len(calls) = 2
  /\ calls[1] = [op |-> "setItem", key |-> "a", val |-> Num("2")]
  /\ calls[2] = [op |-> "removeItem", key |-> "a", val |-> NullV]
  /\ idbQueue = dispatched
  /\ "a" \in DOMAIN cacheAtReady /\ GetItem(cache, "a") = NullV
\* The entries the store behind backend tag held at the start.
Source(tag) ==
  CASE tag = "localStorage" -> atStart.ls
    [] tag = "indexedDB" -> atStart.idb
    [] tag \in AndroidTags -> atStart.bridgeStore
    [] OTHER -> EmptyStore
AllFailed == tried # <<>> /\ \A i \in DOMAIN tried : Failed(tried[i].c)

\* C17: a failed candidate leaves the cache untouched.  With no consumer
\* call, while every attempt made so far has failed the cache is as it
\* was at the start, empty (until the fallback loads the cookies); so at
\* readiness every cache entry is an entry of the selected backend, or of
\* the cookies on the memory fallback.
C17_FailedAttemptPure ==
  /\ (AllFailed /\ backend # "memory") => DOMAIN cache = {}
  /\ (ready = "fulfilled" /\ backend \in NativeTags)
       => \A k \in DOMAIN cache : StoreGet(Source(backend), k) = cache[k]
  /\ (ready = "fulfilled" /\ backend = "memory")
       => cache = LoadCookies(EmptyObj, cookie, 1)
\* The first name of the candidate list whose global has a callable getItem.
FirstReadable ==
  candidates[Min({i \in 1..Len(candidates) : candidates[i] \in Readable(bridges)})]

\* C18: host-bridge probe criterion.  The host-bridge attempt succeeds
\* exactly when one of the four globals is an object with a callable
\* getItem; the tag then names the first such global in list order; a
\* global without getItem is passed over and the attempt raises no error.
C18_BridgeCriterion ==
  Tried("android")
    => /\ Outcome("android") \in {"true", "false"} /\ pc # "threw"
       /\ Outcome("android") = "true" <=> Readable(bridges) # {}
       /\ Outcome("android") = "true" => backend = AndroidTag(FirstReadable)

\* Readiness with window.Android selected although window.AndroidStorage
\* exists: it has setItem and no getItem.
C18_Witness ==
  /\ ready = "fulfilled" /\ backend = "android:Android"
  /\ bridges["AndroidStorage"] = Bridge({"setItem"})
  /\ "getItem" \in bridges["Android"].methods
  /\ Outcome("android") = "true"
\* C19: bindings are no-ops until initialization completes.  A setItem,
\* removeItem or clear made while storage.ready is still pending changes
\* the cache only: it reaches no native call and no native store changes,
\* whichever backend ends up selected.
C19_NoOpUntilReady ==
  [][(ready = "pending" /\ Mutation)
       => /\ ~last'.called
          /\ <<ls, idbQueue, bridgeStore>>' = <<ls, idbQueue, bridgeStore>>]_vars
\* C20: suspension points.  Between the start of init() and the resolution
\* of storage.ready a consumer operation runs only while the database is
\* being opened or its cursor iterated; the synchronous-store attempt and
\* the host-bridge attempt give it no turn, so with the synchronous store
\* selected no consumer operation runs before readiness.
C20_SuspensionPoints ==
  [][(ConsumerStep /\ ready = "pending") => pc \in {"awaitOpen", "cursor"}]_vars
\* An entry key=value whose key and value both decode.
WellFormed(e) == Len(e) = 2 /\ Decode(e[1]) # ThrowV /\ Decode(e[2]) # ThrowV

\* The cache the entries jar[i], jar[i+1], ... should give: each well-formed
\* entry inserted under its decoded key, every other entry skipped.
RECURSIVE Parsed(_, _, _)
Parsed(obj, jar, i) ==
  IF i > Len(jar) THEN obj
  ELSE Parsed(IF WellFormed(jar[i])
              THEN ObjPut(obj, Decode(jar[i][1]).s, Decode(jar[i][2]))
              ELSE obj, jar, i + 1)

\* C21: defensive parsing of the fallback source.  In the fallback, for
\* every list of cookie entries, the cache at readiness holds (decoded
\* key, decoded value) for each well-formed entry and nothing for an entry
\* without "=" or with an undecodable key or value; the entries after a
\* malformed one are still processed, the tag ends as 'memory' and
\* storage.ready is fulfilled.
C21_DefensiveParsing ==
  /\ pc = "returned" => backend = "memory" /\ cache = Parsed(EmptyObj, cookie, 1)
  /\ ready # "rejected" /\ pc # "threw"
\* C22: the bulk load never overrides a consumer write.  In every
\* interleaving of consumer calls with the steps of init(), a step that is
\* not a consumer call (a cursor step of the bulk load in particular)
\* leaves getItem(k) as it was for every key k the consumer has set,
\* removed or cleared.
C22_LoadKeepsWrites ==
  [][~ConsumerStep
       => \A k \in Keys :
            expect[k].t # "unknown" => GetItem(cache', k) = GetItem(cache, k)]_vars
\* The store of the selected backend, for the two that bulk-load.
Selected == IF backend = "localStorage" THEN ls ELSE idb

\* The cache a new session builds from store st: the probe and the loop
\* of lines 40-48 for localStorage, the cursor of lines 81-85 for
\* IndexedDB, both without failure.
Reload(st, tag) ==
  IF tag = "localStorage"
  THEN PutAll(EmptyObj, StoreDelete(st, testKey), LsLoadable(StoreDelete(st, testKey)))
  ELSE PutAll(EmptyObj, st, DOMAIN st)

\* C23: persistence round trip across sessions.  With the synchronous or
\* the async store selected, every native call made having succeeded and
\* completed, and every setItem/removeItem/clear made after readiness (on
\* non-empty keys), the store's contents equal the cache's contents, and
\* a new initialization over the store builds a cache equal to this one.
C23_SessionRoundTrip ==
  (/\ ready = "fulfilled" /\ backend \in {"localStorage", "indexedDB"}
   /\ ~nativeFailed /\ ~earlyWrite /\ idbQueue = <<>>)
    => Selected = cache /\ Reload(Selected, backend) = cache
\* The stars the history items q[i], q[i+1], ... account for: the reward
\* of a 'mission' item, the amount of a 'transaction' item.
RECURSIVE HistorySum(_, _)
HistorySum(q, i) ==
  IF i > Len(q) THEN 0
  ELSE (IF q[i].type = "mission" THEN q[i].reward ELSE q[i].amount)
       + HistorySum(q, i + 1)

\* Whether a step is the application's call of op.
AppCalled(op) == appOps' = appOps + 1 /\ lastApp'.op = op

\* C24: star accounting.  From empty storage, after any completeMission,
\* receiveStars and day-change steps, user.stars is 50 plus the rewards of
\* the 'mission' history items plus the amounts of the 'transaction'
\* history items; no step lowers the stars; and receiveStars of a text
\* that parses to NaN or to a value <= 0 returns false and leaves the
\* stars, the transactions and the history as they were.
C24_StarAccounting ==
  /\ [](appPc = "running"
          => state.user.stars = 50 + HistorySum(state.history, 1))
  /\ [][/\ state'.user.stars >= state.user.stars
         /\ (/\ AppCalled("receiveStars")
             /\ \/ ParseInt(lastApp'.amount) = NaN
                \/ ParseInt(lastApp'.amount).n <= 0)
              => /\ lastApp'.ret = "false"
                 /\ state'.user.stars = state.user.stars
                 /\ state'.transactions = state.transactions
                 /\ state'.history = state.history]_vars

\* A mission completed and stars received on day 0, then the day change
\* to day 1: the stars are 50 plus the mission's reward plus the amount.
C24_Witness ==
  /\ appPc = "running" /\ state.todayDate = 1 /\ Len(state.history) = 2
  /\ state.history[1].type = "transaction" /\ state.history[2].type = "mission"
  /\ state.user.stars = 50 + state.history[2].reward + state.history[1].amount
  /\ state.history[1].date = 0
  /\ state.user.stars > 55

\* The ids of the missions of sequence q.
Ids(q) == {q[i].id : i \in DOMAIN q}

\* completedMissionsToday as assignDailyMissions reads it in a step: that
\* of the running application, or of the user that loadState has just
\* loaded when the step is initApp.
CompletedAtAssignment ==
  IF appPc = "running" THEN Range(state.user.completedMissionsToday)
  ELSE IF Truthy(sGet("migstar_user"))
  THEN Range(Parse(sGet("migstar_user")).completedMissionsToday)
  ELSE {}

\* C25: a mission is rewarded at most once per day.  Between two resets of
\* completedMissionsToday no mission id is rewarded twice; a call of
\* completeMission for an id already completed or not in todayMissions
\* leaves the stars, the history and completedMissionsToday unchanged, and
\* any other call adds the mission's reward and one history item; and a
\* step that assigns the daily missions picks at most 3 missions with
\* distinct ids, none of them in completedMissionsToday at that time.
C25_RewardedOnce ==
  /\ [](\A i, j \in DOMAIN rewardedToday :
          i # j => rewardedToday[i] # rewardedToday[j])
  /\ [][/\ AppCalled("completeMission")
             => IF \/ lastApp'.id \in Range(state.user.completedMissionsToday)
                   \/ lastApp'.id \notin Ids(state.todayMissions)
                THEN /\ state'.user.stars = state.user.stars
                     /\ state'.history = state.history
                     /\ state'.user.completedMissionsToday
                          = state.user.completedMissionsToday
                ELSE /\ state'.user.stars
                          = state.user.stars + rewards[lastApp'.id]
                     /\ Len(state'.history) = Len(state.history) + 1
                     /\ state'.history[1].type = "mission"
                     /\ state'.history[1].reward = rewards[lastApp'.id]
                     /\ SubSeq(state'.history, 2, Len(state'.history))
                          = state.history
        /\ state'.todayMissions # state.todayMissions
             => /\ Len(state'.todayMissions) <= 3
                /\ Cardinality(Ids(state'.todayMissions))
                     = Len(state'.todayMissions)
                /\ Ids(state'.todayMissions) \cap CompletedAtAssignment = {}
                /\ Range(state'.todayMissions) \subseteq Range(state'.missions)
       ]_vars

\* A mission of the day rewarded once, and a second call for the same id
\* ignored: one history item, the stars raised by one reward.
C25_Witness ==
  /\ appPc = "running" /\ appOps = 2
  /\ lastApp.op = "completeMission"
  /\ rewardedToday = <<lastApp.id>>
  /\ state.user.completedMissionsToday = <<lastApp.id>>
  /\ Len(state.history) = 1
  /\ state.user.stars = 50 + rewards[lastApp.id]

====
